---- MODULE Spec2Model ----
(***************************************************************************)
(* sessionizer: the session registry (config.sessions), its rotation and   *)
(* its synchronisation with the live tmux server.                   *)
(*                                             *)
(* Strings are sequences of character code points, so that the string      *)
(* conversions of the program (replace, trim, split, format) are computed  *)
(* as the program computes them.                             *)
(***************************************************************************)
EXTENDS Integers, Sequences, FiniteSets, TLC

\* Character code points used by the program's string handling.
Dot == 46
MidDot == 183
Colon == 58
Newline == 10
Quote == 39
Space == 32
Slash == 47
Star == 42
LParen == 40
RParen == 41

\* Longest registry the model lets Add, New and Sync(reverse) build.
MaxLen == 3

\* The session identifiers (absolute paths) the user works with.
PathA == <<47, 97>>
PathB == <<47, 98>>
PathC == <<47, 99>>
PathDot == <<47, 97, Dot, 98>>
Paths == {PathA, PathB, PathC, PathDot}

\* Option::None for a session / no attached client.
None == <<>>

------------------------------------------------------------------------------
\* Generic sequence helpers

Last(s) == s[Len(s)]

Range(s) == {s[i] : i \in 1..Len(s)}

NoDup(s) == \A i, j \in 1..Len(s) : s[i] = s[j] => i = j

RECURSIVE Perms(_)
Perms(S) ==
    IF S = {} THEN {<<>>}
    ELSE UNION {{<<x>> \o p : p \in Perms(S \ {x})} : x \in S}

------------------------------------------------------------------------------
\* String conversions

\* str::replace('.', "·")
Replace(s) == [i \in 1..Len(s) |-> IF s[i] = Dot THEN MidDot ELSE s[i]]

\* The tmux session name used for a session path.
SessionName(session) == Replace(session)

IsSpace(c) == c \in {Space, Newline, 9, 13}

\* str::trim
RECURSIVE TrimStart(_)
TrimStart(s) ==
    IF s # <<>> /\ IsSpace(Head(s)) THEN TrimStart(Tail(s)) ELSE s

RECURSIVE TrimEnd(_)
TrimEnd(s) ==
    IF s # <<>> /\ IsSpace(Last(s)) THEN TrimEnd(SubSeq(s, 1, Len(s) - 1)) ELSE s

Trim(s) == TrimEnd(TrimStart(s))

\* str::split(c): the pieces of s between occurrences of c.
RECURSIVE Split(_, _)
Split(s, c) ==
    IF \E i \in 1..Len(s) : s[i] = c
    THEN LET i == CHOOSE k \in 1..Len(s) : s[k] = c /\ \A j \in 1..(k - 1) : s[j] # c
         IN  <<SubSeq(s, 1, i - 1)>> \o Split(SubSeq(s, i + 1, Len(s)), c)
    ELSE <<s>>

\* Iterator::filter(|s| !s.is_empty())
NonEmpty(ss) == SelectSeq(ss, LAMBDA s : s # <<>>)

\* What `tmux ls` prints for the sessions in `order`: one line per session,
\* "<name>: 1 windows", each ended by a newline.
RECURSIVE LsStdout(_)
LsStdout(order) ==
    IF order = <<>> THEN <<>>
    ELSE Head(order) \o <<Colon, Space, 49, Space, 119, Newline>> \o LsStdout(Tail(order))

\* ls that keeps the whole line instead of cutting it at the first ':'
ParseLsWholeLine(stdout) == NonEmpty(Split(stdout, Newline))

\* ls: split('\n'), drop the empty pieces, keep what precedes the first ':'.
ParseLs(stdout) ==
    LET lines == NonEmpty(Split(stdout, Newline))
    IN  [i \in 1..Len(lines) |-> Head(Split(lines[i], Colon))]

\* What `tmux display-message -p '#S'` prints: the argument reaches tmux
\* without a shell, so the quotes are part of the format, followed by a newline.
DisplayMessageStdout(name) == <<Quote>> \o name \o <<Quote, Newline>>

------------------------------------------------------------------------------
\* The tmux client (tmux.rs).  The state of the tmux server is tm.live (the
\* names of the live sessions) and tm.current (the session the user's client is
\* attached to, None without an attached client).  tm.calls logs the tmux
\* processes an operation spawned, tm.failAt is the position of the one that
\* fails to spawn or exits non-zero for an outside reason (0: none), and tm.ok
\* turns FALSE when a call returned Err.

Spawn(tm, cmd, arg) == [tm EXCEPT !.calls = Append(@, <<cmd, arg>>)]

Faulted(tm) == Len(tm.calls) = tm.failAt

Err(tm) == [tm EXCEPT !.ok = FALSE]

\* tmux kill-session -t <session>
kill_session(tm, session) ==
    LET t == Spawn(tm, "kill-session", session)
    IN  IF ~Faulted(t) /\ session \in t.live
        THEN [t EXCEPT !.live = @ \ {session},
                !.current = IF @ = session THEN None ELSE @]
        ELSE Err(t)

\* tmux switch-client -t <name>: needs an attached client and the session.
switch_client(tm, session) ==
    LET name == Replace(session)
        t == Spawn(tm, "switch-client", name)
    IN  IF ~Faulted(t) /\ name \in t.live /\ t.current # None
        THEN [t EXCEPT !.current = name]
        ELSE Err(t)

\* tmux ls: Ok(names in the order printed) or Err.  `order` is the order the
\* server prints its sessions in.
ls(tm, order) ==
    LET t == Spawn(tm, "ls", None)
    IN  IF ~Faulted(t)
        THEN [tm |-> t, value |-> ParseLs(LsStdout(order))]
        ELSE [tm |-> Err(t), value |-> <<>>]

\* tmux display-message -p '#S': Ok(stdout) or Err.  Without a server the
\* process exits non-zero; without an attached client tmux answers for the
\* session `shown`.
current_session(tm, shown) ==
    LET t == Spawn(tm, "display-message", None)
        name == IF t.current # None THEN t.current ELSE shown
    IN  IF ~Faulted(t) /\ t.live # {}
        THEN [tm |-> t, value |-> DisplayMessageStdout(name)]
        ELSE [tm |-> Err(t), value |-> <<>>]

\* is_active that reports an attached client whatever tmux info said
is_active_always(tm) ==
    LET t == Spawn(tm, "info", None)
    IN  IF ~Faulted(t)
        THEN [tm |-> t, value |-> TRUE]
        ELSE [tm |-> Err(t), value |-> FALSE]

\* tmux info: a non-zero exit (no client to report on) is Ok(false); only a
\* failure to run the process is Err.
is_active(tm) ==
    LET t == Spawn(tm, "info", None)
    IN  IF ~Faulted(t)
        THEN [tm |-> t, value |-> t.current # None]
        ELSE [tm |-> Err(t), value |-> FALSE]

\* tmux attach -t =<name>
attach(tm, session) ==
    LET name == Replace(session)
        t == Spawn(tm, "attach", name)
    IN  IF ~Faulted(t) /\ name \in t.live
        THEN [t EXCEPT !.current = name]
        ELSE Err(t)

\* tmux new-session -s <name> -c <session> -d: tmux refuses a duplicate name.
new_session(tm, session) ==
    LET name == Replace(session)
        t == Spawn(tm, "new-session", name)
    IN  IF ~Faulted(t) /\ name \notin t.live
        THEN [t EXCEPT !.live = @ \cup {name}]
        ELSE Err(t)

\* has_session that asks for the path instead of the session name
has_session_raw(tm, session) ==
    LET t == Spawn(tm, "has-session", session)
    IN  IF ~Faulted(t)
        THEN [tm |-> t, value |-> session \in t.live]
        ELSE [tm |-> Err(t), value |-> FALSE]

\* tmux has-session -t =<name>: a non-zero exit is Ok(false).
has_session(tm, session) ==
    LET name == Replace(session)
        t == Spawn(tm, "has-session", name)
    IN  IF ~Faulted(t)
        THEN [tm |-> t, value |-> name \in t.live]
        ELSE [tm |-> Err(t), value |-> FALSE]

------------------------------------------------------------------------------
\* Vec<String> operations used on config.sessions

\* retain that keeps every element
RetainAll(sessions, session) == sessions

\* Vec::retain(|s| s != session)
Retain(sessions, session) == SelectSeq(sessions, LAMBDA s : s # session)

\* contains that never finds the element
ContainsNever(sessions, session) == FALSE

\* Vec::contains / iter().any(|s| s == session)
Contains(sessions, session) == \E i \in 1..Len(sessions) : sessions[i] = session

\* Vec::push
Push(sessions, session) == Append(sessions, session)

\* insert that puts the element back at the end
InsertBack(sessions, session) == Append(sessions, session)

\* Vec::insert(0, session)
InsertFront(sessions, session) == <<session>> \o sessions

\* Vec::pop: the vector without its last element
PopRest(sessions) == SubSeq(sessions, 1, Len(sessions) - 1)

\* remove(0) that leaves the vector as it was
RemoveFirstKept(sessions) == sessions

\* Vec::remove(0): the vector without its first element
RemoveFirstRest(sessions) == Tail(sessions)

------------------------------------------------------------------------------
\* The picker (fzf.rs): the candidates are written to fzf's stdin; choice 0 is
\* fzf exiting non-zero (aborted), choice i is the user selecting line i, which
\* fzf prints followed by a newline.
Picker(candidates, choice) ==
    IF choice = 0
    THEN [ok |-> FALSE, value |-> <<>>]
    ELSE [ok |-> TRUE, value |-> candidates[choice] \o <<Newline>>]

\* The directories offered by `new` without an argument (directories::evaluate).
Directories == <<PathA, PathB, PathC, PathDot>>

------------------------------------------------------------------------------
\* The session operations (sessions.rs).  Each takes the loaded registry and
\* the tmux state and returns an outcome: the registry on disk afterwards, the
\* tmux state, Ok/Err, the message printed or the error, the session passed to
\* a `set` that returned Ok, how many tmux calls had been made when the config
\* was saved (-1: never saved), and what `tmux ls` reported.

Outcome(persisted, tm, result, msg, session, activated, savedAt, reported) ==
    [sessions |-> persisted, tm |-> tm, result |-> result, msg |-> msg,
     session |-> session, activated |-> activated, savedAt |-> savedAt,
     reported |-> reported]

\* An operation that ended in Err before saving anything.
Abort(sessions, tm, msg, session) ==
    Outcome(sessions, tm, "err", msg, session, None, -1, <<>>)

\* An operation that printed `msg` and returned Ok(()) without saving.
Soft(sessions, tm, msg, session) ==
    Outcome(sessions, tm, "ok", msg, session, None, -1, <<>>)

\* sessions::set
set(tm, session) ==
    LET has == has_session(tm, session)
    IN  IF ~has.tm.ok THEN has.tm
        ELSE LET t1 == IF ~has.value THEN new_session(has.tm, session) ELSE has.tm
             IN  IF ~t1.ok THEN t1
          ELSE LET active == is_active(t1)
               IN  IF ~active.tm.ok THEN active.tm
                   ELSE IF active.value
                 THEN switch_client(active.tm, session)
                 ELSE attach(active.tm, session)

\* sessions::new; arg is the command line argument (None: ask the picker),
\* choice the picker's outcome, exists the result of Path::exists.
new(sessions, tm, arg, choice, exists) ==
    IF arg = None /\ sessions = <<>>
    THEN Soft(sessions, tm, "No sessions in the history.", None)
    ELSE LET picked == IF arg = None THEN Picker(Directories, choice)
                ELSE [ok |-> TRUE, value |-> arg]
             session == Trim(picked.value)
         IN  IF ~picked.ok THEN Abort(sessions, tm, "fzf error", None)
             ELSE IF ~exists
             THEN Abort(sessions, tm, "the session does not exists as a directory in the fs", session)
             ELSE LET t == set(tm, session)
           IN  IF ~t.ok THEN Abort(sessions, t, "tmux", session)
               ELSE Outcome(Push(Retain(sessions, session), session), t, "ok", "",
                     session, session, Len(t.calls), <<>>)

\* sessions::go
go(sessions, tm, arg, choice, exists) ==
    IF arg = None /\ sessions = <<>>
    THEN Soft(sessions, tm, "No sessions in the history.", None)
    ELSE LET picked == IF arg = None THEN Picker(sessions, choice)
                ELSE [ok |-> TRUE, value |-> arg]
             session == Trim(picked.value)
         IN  IF ~picked.ok THEN Abort(sessions, tm, "fzf error", None)
             ELSE IF ~exists
             THEN Abort(sessions, tm, "the session does not exists as a directory in the fs", session)
             ELSE IF ~Contains(sessions, session)
             THEN Soft(sessions, tm, "Session not found in the history.", session)
             ELSE LET t == set(tm, session)
           IN  IF ~t.ok THEN Abort(sessions, t, "tmux", session)
               ELSE Outcome(Push(Retain(sessions, session), session), t, "ok", "",
                     session, session, Len(t.calls), <<>>)

\* sessions::add: the config is saved before `set` runs.
add(sessions, tm, session, setFlag) ==
    IF Contains(sessions, session)
    THEN Soft(sessions, tm, "Session already exists in the history.", session)
    ELSE LET t1 == new_session(tm, session)
             added == Push(sessions, session)
         IN  IF ~t1.ok THEN Abort(sessions, t1, "tmux", session)
             ELSE IF ~setFlag
             THEN Outcome(added, t1, "ok", "", session, None, Len(t1.calls), <<>>)
             ELSE LET t2 == set(t1, session)
           IN  IF ~t2.ok
               THEN Outcome(added, t2, "err", "tmux", session, None, Len(t1.calls), <<>>)
               ELSE Outcome(added, t2, "ok", "", session, session, Len(t1.calls), <<>>)

\* remove that also kills the tmux session of the entry it drops
remove_killing(sessions, tm, session, shown) ==
    LET cur == current_session(tm, shown)
    IN  IF ~cur.tm.ok THEN Abort(sessions, cur.tm, "tmux", session)
        ELSE IF cur.value = session
        THEN Soft(sessions, cur.tm, "Cannot remove the current session.", session)
        ELSE LET t == kill_session(cur.tm, SessionName(session))
             IN  IF ~t.ok THEN Abort(sessions, t, "tmux", session)
                 ELSE Outcome(Retain(sessions, session), t, "ok", "", session, None,
                              Len(t.calls), <<>>)

\* sessions::remove
remove(sessions, tm, session, shown) ==
    LET cur == current_session(tm, shown)
    IN  IF ~cur.tm.ok THEN Abort(sessions, cur.tm, "tmux", session)
        ELSE IF cur.value = session
        THEN Soft(sessions, cur.tm, "Cannot remove the current session.", session)
        ELSE Outcome(Retain(sessions, session), cur.tm, "ok", "", session, None,
              Len(cur.tm.calls), <<>>)

\* a first loop that kills nothing
KillLoopSkipped(tm, reported, sessions) == tm

\* sync_to_tmux, first loop: kill every reported session the registry lacks.
RECURSIVE KillLoop(_, _, _)
KillLoop(tm, reported, sessions) ==
    IF reported = <<>> \/ ~tm.ok THEN tm
    ELSE KillLoop(IF ~Contains(sessions, Head(reported))
           THEN kill_session(tm, Head(reported))
           ELSE tm,
           Tail(reported), sessions)

\* sync_to_tmux, second loop: create a session for every entry without one.
RECURSIVE CreateLoop(_, _)
CreateLoop(tm, rest) ==
    IF rest = <<>> \/ ~tm.ok THEN tm
    ELSE LET has == has_session(tm, Head(rest))
         IN  CreateLoop(IF has.tm.ok /\ ~has.value
                 THEN new_session(has.tm, Head(rest))
                 ELSE has.tm,
                 Tail(rest))

\* sessions::sync_to_tmux: the config is loaded and never saved.
sync_to_tmux(sessions, tm, order) ==
    LET listed == ls(tm, order)
    IN  IF ~listed.tm.ok THEN Abort(sessions, listed.tm, "tmux", None)
        ELSE LET t == CreateLoop(KillLoop(listed.tm, listed.value, sessions), sessions)
             IN  Outcome(sessions, t, IF t.ok THEN "ok" ELSE "err",
                  IF t.ok THEN "" ELSE "tmux", None, None, -1, listed.value)

\* sync_from_tmux that saves the config before it looks for the last entry
sync_from_tmux_saving_first(sessions, tm, order) ==
    LET listed == ls(tm, order)
    IN  IF ~listed.tm.ok THEN Abort(sessions, listed.tm, "tmux", None)
        ELSE IF listed.value = <<>>
        THEN Outcome(listed.value, listed.tm, "err", "fail to get the last session",
                     None, None, Len(listed.tm.calls), listed.value)
        ELSE LET last == Last(listed.value)
                 t == set(listed.tm, last)
             IN  IF ~t.ok
                 THEN Outcome(listed.value, t, "err", "tmux", last, None,
                              Len(listed.tm.calls), listed.value)
                 ELSE Outcome(listed.value, t, "ok", "", last, last, Len(listed.tm.calls),
                              listed.value)

\* sessions::sync_from_tmux
sync_from_tmux(sessions, tm, order) ==
    LET listed == ls(tm, order)
    IN  IF ~listed.tm.ok THEN Abort(sessions, listed.tm, "tmux", None)
        ELSE IF listed.value = <<>>
        THEN Abort(sessions, listed.tm, "fail to get the last session", None)
        ELSE LET last == Last(listed.value)
          t == set(listed.tm, last)
             IN  IF ~t.ok
          THEN Outcome(sessions, t, "err", "tmux", last, None, -1, listed.value)
          ELSE Outcome(listed.value, t, "ok", "", last, last, Len(t.calls),
                listed.value)

\* sessions::sync
sync(sessions, tm, reverse, order) ==
    IF reverse THEN sync_from_tmux(sessions, tm, order)
    ELSE sync_to_tmux(sessions, tm, order)

\* next without the test for a single entry
next_unguarded(sessions, tm, show) ==
    IF sessions = <<>>
    THEN Soft(sessions, tm, "No more sessions in the history.", None)
    ELSE LET session == Last(sessions)
             rest == PopRest(sessions)
         IN  IF show THEN Soft(sessions, tm, "Next session: ", session)
             ELSE LET t == set(tm, session)
                  IN  IF ~t.ok THEN Abort(sessions, t, "tmux", session)
                      ELSE Outcome(InsertFront(rest, session), t, "ok", "", session,
                                   session, Len(t.calls), <<>>)

\* next that saves the popped registry when it only shows the candidate
next_show_saving(sessions, tm, show) ==
    IF sessions = <<>>
    THEN Soft(sessions, tm, "No more sessions in the history.", None)
    ELSE IF Len(sessions) = 1
    THEN Soft(sessions, tm, "Only one session in the history.", None)
    ELSE LET session == Last(sessions)
             rest == PopRest(sessions)
         IN  IF show
             THEN Outcome(rest, tm, "ok", "Next session: ", session, None, 0, <<>>)
             ELSE LET t == set(tm, session)
                  IN  IF ~t.ok THEN Abort(sessions, t, "tmux", session)
                      ELSE Outcome(InsertFront(rest, session), t, "ok", "", session,
                                   session, Len(t.calls), <<>>)

\* sessions::next
next(sessions, tm, show) ==
    IF sessions = <<>>
    THEN Soft(sessions, tm, "No more sessions in the history.", None)
    ELSE IF Len(sessions) = 1
    THEN Soft(sessions, tm, "Only one session in the history.", None)
    ELSE LET session == Last(sessions)
             rest == PopRest(sessions)
         IN  IF show THEN Soft(sessions, tm, "Next session: ", session)
             ELSE LET t == set(tm, session)
           IN  IF ~t.ok THEN Abort(sessions, t, "tmux", session)
               ELSE Outcome(InsertFront(rest, session), t, "ok", "", session,
                     session, Len(t.calls), <<>>)

\* previous that puts the entry it activated back at the front
previous_reinserting_front(sessions, tm, show) ==
    IF sessions = <<>>
    THEN Soft(sessions, tm, "No more sessions in the history.", None)
    ELSE IF Len(sessions) = 1
    THEN Soft(sessions, tm, "Only one session in the history.", None)
    ELSE LET session == sessions[1]
             rest == RemoveFirstRest(sessions)
         IN  IF show THEN Soft(sessions, tm, "Previous session: ", session)
             ELSE LET t == set(tm, session)
                  IN  IF ~t.ok THEN Abort(sessions, t, "tmux", session)
                      ELSE Outcome(InsertFront(rest, session), t, "ok", "", session,
                                   session, Len(t.calls), <<>>)

\* sessions::previous
previous(sessions, tm, show) ==
    IF sessions = <<>>
    THEN Soft(sessions, tm, "No more sessions in the history.", None)
    ELSE IF Len(sessions) = 1
    THEN Soft(sessions, tm, "Only one session in the history.", None)
    ELSE LET session == Head(sessions)
             rest == RemoveFirstRest(sessions)
         IN  IF show THEN Soft(sessions, tm, "Previous session: ", session)
             ELSE LET t == set(tm, session)
           IN  IF ~t.ok THEN Abort(sessions, t, "tmux", session)
               ELSE Outcome(Push(rest, session), t, "ok", "", session,
                     session, Len(t.calls), <<>>)

------------------------------------------------------------------------------
\* Directory discovery (directories.rs)

\* Option<T>: None is the empty sequence, Some(v) is <<v>>.
Some(v) == <<v>>

UnwrapOr(opt, default) == IF opt = None THEN default ELSE opt[1]

\* Option::or
OrElse(opt, other) == IF opt = None THEN other ELSE opt

\* The largest depth the user passes to -m and -M.
MaxDepth == 2

\* The filesystem the roots are walked on, in the order of a depth-first walk.
\* "locked" is a directory that cannot be read: read_dir on it fails.
\*   /p  /p/q (locked)  /p/q/r  /p/x  /p/y (file)  /p/z  /p/z/w
Fs ==
    << [path |-> <<Slash, 112>>, kind |-> "dir"],
       [path |-> <<Slash, 112, Slash, 113>>, kind |-> "locked"],
       [path |-> <<Slash, 112, Slash, 113, Slash, 114>>, kind |-> "dir"],
       [path |-> <<Slash, 112, Slash, 120>>, kind |-> "dir"],
       [path |-> <<Slash, 112, Slash, 121>>, kind |-> "file"],
       [path |-> <<Slash, 112, Slash, 122>>, kind |-> "dir"],
       [path |-> <<Slash, 112, Slash, 122, Slash, 119>>, kind |-> "dir"] >>

\* The paths the user tracks as roots: /p and /p/z, one inside the other.
RootPaths == {<<Slash, 112>>, <<Slash, 112, Slash, 122>>}

\* The patterns the user passes to -g: ".*" (clap's default), "z", "x*z", and
\* "(" which is not a regular expression.
Patterns == {<<Dot, Star>>, <<122>>, <<120, Star, 122>>, <<LParen>>}

\* Regex::new on the patterns made of literals, '.' and '*': a parenthesis
\* (never closed in Patterns) or a leading '*' is a syntax error.
Compiles(re) ==
    /\ \A i \in 1..Len(re) : re[i] \notin {LParen, RParen}
    /\ re # <<>> => re[1] # Star

\* does the pattern from position i on match the text from position j on
RECURSIVE MatchHere(_, _, _, _)
MatchHere(re, i, text, j) ==
    IF i > Len(re) THEN TRUE
    ELSE IF i < Len(re) /\ re[i + 1] = Star
    THEN \E k \in j..(Len(text) + 1) :
            /\ \A m \in j..(k - 1) : re[i] = Dot \/ re[i] = text[m]
            /\ MatchHere(re, i + 2, text, k)
    ELSE /\ j <= Len(text)
         /\ re[i] = Dot \/ re[i] = text[j]
         /\ MatchHere(re, i + 1, text, j + 1)

\* Regex::is_match: the pattern matches somewhere in the text
is_match(re, text) == \E j \in 1..(Len(text) + 1) : MatchHere(re, 1, text, j)

\* path is root or lies below it
Under(root, path) ==
    /\ Len(root) <= Len(path)
    /\ SubSeq(path, 1, Len(root)) = root
    /\ Len(path) = Len(root) \/ path[Len(root) + 1] = Slash

\* walkdir's depth of an entry: the root is 0, its children are 1, ...
Depth(root, path) == Cardinality({i \in (Len(root) + 1)..Len(path) : path[i] = Slash})

Kind(path) ==
    IF \E i \in 1..Len(Fs) : Fs[i].path = path
    THEN (CHOOSE e \in Range(Fs) : e.path = path).kind
    ELSE "missing"

\* The walk from root reaches an entry when the root and every directory
\* between the root and the entry can be read; what read_dir fails on is an
\* Err item, dropped by filter_map(|e| e.ok()).
Reached(root, path) ==
    /\ Under(root, path)
    /\ \A i \in (Len(root) + 1)..Len(path) :
          path[i] = Slash => Kind(SubSeq(path, 1, i - 1)) = "dir"

\* WalkDir::new(path).min_depth(mindepth).max_depth(maxdepth): max_depth
\* raises a maximum smaller than the minimum already set to that minimum.
WalkDir(path, mindepth, maxdepth) ==
    LET max == IF maxdepth < mindepth THEN mindepth ELSE maxdepth
    IN  SelectSeq(Fs, LAMBDA e : /\ Reached(path, e.path)
                                 /\ Depth(path, e.path) \in mindepth..max)

\* One root of evaluate's loop: the entries that match and are directories.
WalkRoot(directory) ==
    LET walked == WalkDir(directory.path, directory.mindepth, directory.maxdepth)
        kept == SelectSeq(walked, LAMBDA e : /\ is_match(directory.grep[1], e.path)
                                             /\ e.kind \in {"dir", "locked"})
    IN  [i \in 1..Len(kept) |-> kept[i].path]

\* evaluate's loop over config.directories: the Vec it fills, or the error
\* of Regex::new, or the panic of unwrap on a root without grep.
RECURSIVE Collect(_, _)
Collect(roots, found) ==
    IF roots = <<>> THEN [result |-> "ok", found |-> found]
    ELSE IF Head(roots).grep = None THEN [result |-> "panic", found |-> <<>>]
    ELSE IF ~Compiles(Head(roots).grep[1]) THEN [result |-> "err", found |-> <<>>]
    ELSE Collect(Tail(roots), found \o WalkRoot(Head(roots)))

\* String's Ord: byte-wise lexicographic
RECURSIVE Less(_, _)
Less(a, b) ==
    IF b = <<>> THEN FALSE
    ELSE IF a = <<>> THEN TRUE
    ELSE IF a[1] # b[1] THEN a[1] < b[1]
    ELSE Less(Tail(a), Tail(b))

\* a sort that leaves the vector as it is
Unsorted(v) == v

\* Vec::sort
RECURSIVE Sort(_)
Sort(v) ==
    IF v = <<>> THEN <<>>
    ELSE LET sorted == Sort(Tail(v))
             k == Cardinality({i \in 1..Len(sorted) : ~Less(Head(v), sorted[i])})
         IN  SubSeq(sorted, 1, k) \o <<Head(v)>> \o SubSeq(sorted, k + 1, Len(sorted))

\* The orders in which a HashSet built from the vector can be iterated.
HashOrders(found) == Perms(Range(found))

\* directories::evaluate; hashed is the order the HashSet was iterated in
evaluate(roots, hashed) ==
    LET c == Collect(roots, <<>>)
    IN  IF c.result # "ok" THEN [result |-> c.result, dirs |-> <<>>]
        ELSE [result |-> "ok", dirs |-> Sort(hashed)]

\* directories::add
directories_add(roots, path, mindepth, maxdepth, grep) ==
    LET same == {i \in 1..Len(roots) : roots[i].path = path}
        directory ==
            IF same # {}
            THEN LET d == roots[CHOOSE i \in same : \A j \in same : i <= j]
                 IN  [path |-> path,
                      mindepth |-> UnwrapOr(mindepth, d.mindepth),
                      maxdepth |-> UnwrapOr(maxdepth, d.maxdepth),
                      grep |-> OrElse(grep, d.grep)]
            ELSE [path |-> path,
                  mindepth |-> UnwrapOr(mindepth, 1),
                  maxdepth |-> UnwrapOr(maxdepth, 1),
                  grep |-> grep]
    IN  Append(SelectSeq(roots, LAMBDA d : d.path # path), directory)

\* directories::remove
directories_remove(roots, path) == SelectSeq(roots, LAMBDA d : d.path # path)

\* clap's default_value: an option the user did not pass arrives as Some(default)
ClapDefault(opt, default) == IF opt = None THEN Some(default) ELSE opt

------------------------------------------------------------------------------
\* The picker interaction (fzf.rs): the candidates are joined with newlines
\* and written to fzf's stdin by a spawned task while the caller awaits
\* wait_with_output.  Lengths are counted in lines: a write or a read moves
\* whole lines through the pipe, and the last line, which has no newline after
\* it, is complete for fzf only at end of input.

\* Largest capacity of the stdin pipe, in lines.
MaxCap == 2

\* No picker has been spawned.
NoPicker ==
    [n |-> 0, cap |-> 0, want |-> 0, producer |-> "none", written |-> 0,
     pipe |-> 0, read |-> 0, eof |-> FALSE, picker |-> "none", success |-> FALSE,
     out |-> 0, consumer |-> "none", result |-> "none", value |-> 0]

\* Command::spawn with piped stdin and stdout, stdin taken, the writer task
\* spawned: n candidates, a pipe of cap lines, and a user who will press Enter
\* on line `want` once fzf shows it, or abort (want = 0).
Spawned(n, cap, want) ==
    [NoPicker EXCEPT !.n = n, !.cap = cap, !.want = want,
                     !.producer = "writing", !.picker = "running",
                     !.consumer = "waiting"]

\* a writer that keeps stdin open after its last write
leak_stdin(f) == [f EXCEPT !.producer = "leaked"]

\* drop(stdin): the write end of the pipe is closed
drop_stdin(f) == [f EXCEPT !.producer = "closed"]

\* fzf has the whole of line i
LineComplete(f, i) ==
    \/ i < f.n /\ f.read >= i
    \/ i = f.n /\ f.read = f.n /\ f.eof

------------------------------------------------------------------------------
\* State

VARIABLES
    sessions,   \* config.sessions as stored in the configuration file
    live,       \* names of the sessions of the tmux server
    current,    \* the session the user's tmux client is attached to, or None
    last,       \* the command that just ran and its outcome ("idle" at the prompt)
    directories, \* config.directories as stored in the configuration file
    evals,      \* what the last two runs of `directories evaluate` returned,
                \* since the roots last changed
    fzf         \* the picker interaction: writer task, pipe, fzf and caller

vars == <<sessions, live, current, last, directories, evals, fzf>>

\* Strings the user may pass as a session on the command line: the paths and
\* the tmux names the paths are given (what Sync(reverse) stores).
Args == Paths \cup {SessionName(p) : p \in Paths}

Names == {SessionName(p) : p \in Paths}

\* Most tmux calls `set` makes: has-session, new-session, info, switch/attach.
SetCalls == 4

\* Most tmux calls a sync makes: ls, a kill per live session, a has-session
\* and a new-session per registry entry.
SyncCalls == 1 + Cardinality(live) + 2 * Len(sessions)

Tmux(failAt) ==
    [live |-> live, current |-> current, calls |-> <<>>, failAt |-> failAt, ok |-> TRUE]

\* No command is running: the shell prompt.
Idle ==
    [op |-> "idle", flag |-> FALSE, session |-> None, result |-> "ok",
     msg |-> "", activated |-> None, savedAt |-> -1, reported |-> <<>>,
     calls |-> <<>>, order |-> <<>>, exists |-> TRUE, pre |-> sessions,
     preLive |-> live, preCurrent |-> current]

\* The command `op` ran with flag `flag` and ended with outcome `o`; `order` is
\* the order in which the tmux server listed its sessions, when it was asked,
\* `exists` what Path::exists answered for the session, when it was asked.
Ran(op, flag, order, exists, o) ==
    /\ sessions' = o.sessions
    /\ live' = o.tm.live
    /\ current' = o.tm.current
    /\ last' = [op |-> op, flag |-> flag, session |-> o.session,
                result |-> o.result, msg |-> o.msg, activated |-> o.activated,
                savedAt |-> o.savedAt, reported |-> o.reported, calls |-> o.tm.calls,
                order |-> order, exists |-> exists, pre |-> sessions,
                preLive |-> live, preCurrent |-> current]
    /\ UNCHANGED <<directories, evals, fzf>>

\* `sessionizer config init` wrote an empty registry; the tmux server is in
\* any state.
Init ==
    /\ sessions = <<>>
    /\ live \in SUBSET Names
    /\ current \in live \cup {None}
    /\ last = Idle
    /\ directories = <<>>
    /\ evals = <<>>
    /\ fzf = NoPicker

\* sessionizer sessions go [session]
Go ==
    /\ last.op = "idle"
    /\ \E arg \in Args \cup {None}, exists \in BOOLEAN, failAt \in 0..SetCalls :
        \E choice \in IF arg = None THEN 0..Len(sessions) ELSE {0} :
            \E o \in {go(sessions, Tmux(failAt), arg, choice, exists)} : Ran("go", FALSE, <<>>, exists, o)

\* sessionizer sessions new [session]
New ==
    /\ last.op = "idle"
    /\ \E arg \in Args \cup {None}, exists \in BOOLEAN, failAt \in 0..SetCalls :
        \E choice \in IF arg = None THEN 0..Len(Directories) ELSE {0} :
            /\ Len(sessions) < MaxLen
            /\ \E o \in {new(sessions, Tmux(failAt), arg, choice, exists)} : Ran("new", FALSE, <<>>, exists, o)

\* sessionizer sessions add [--set] <session>
Add ==
    /\ last.op = "idle"
    /\ \E session \in Args, setFlag \in BOOLEAN, failAt \in 0..(SetCalls + 1) :
        /\ Len(sessions) < MaxLen
        /\ \E o \in {add(sessions, Tmux(failAt), session, setFlag)} : Ran("add", setFlag, <<>>, TRUE, o)

\* sessionizer sessions remove <session>
Remove ==
    /\ last.op = "idle"
    /\ \E session \in Args, shown \in live \cup {None}, failAt \in 0..1 :
        /\ shown = None <=> live = {}
        /\ \E o \in {remove(sessions, Tmux(failAt), session, shown)} : Ran("remove", FALSE, <<>>, TRUE, o)

\* sessionizer sessions next [--show]
NextSession ==
    /\ last.op = "idle"
    /\ \E show \in BOOLEAN, failAt \in 0..SetCalls :
        \E o \in {next(sessions, Tmux(failAt), show)} : Ran("next", show, <<>>, TRUE, o)

\* sessionizer sessions prev [--show]
Previous ==
    /\ last.op = "idle"
    /\ \E show \in BOOLEAN, failAt \in 0..SetCalls :
        \E o \in {previous(sessions, Tmux(failAt), show)} : Ran("previous", show, <<>>, TRUE, o)

\* sessionizer sessions sync [--reverse]
Sync ==
    /\ last.op = "idle"
    /\ \E reverse \in BOOLEAN, order \in Perms(live), failAt \in 0..SyncCalls :
        /\ reverse => Len(order) <= MaxLen
        /\ \E o \in {sync(sessions, Tmux(failAt), reverse, order)} : Ran("sync", reverse, order, TRUE, o)

\* The process exits and the user is back at the prompt.
Exit ==
    /\ last.op # "idle"
    /\ last' = Idle
    /\ UNCHANGED <<sessions, live, current, directories, evals, fzf>>

Next == Go \/ New \/ Add \/ Remove \/ NextSession \/ Previous \/ Sync \/ Exit

Spec == Init /\ [][Next]_vars

------------------------------------------------------------------------------
\* The directories commands, on their own: no session is tracked and no tmux
\* server runs.

InitDirs ==
    /\ sessions = <<>>
    /\ live = {}
    /\ current = None
    /\ last = Idle
    /\ directories = <<>>
    /\ evals = <<>>
    /\ fzf = NoPicker

Depths == {None} \cup {Some(n) : n \in 0..MaxDepth}

Greps == {None} \cup {Some(p) : p \in Patterns}

\* Commands::Add as clap parses it, handed to directories::add: what the user
\* typed is a path and, for each of -m, -M and -g, a value or nothing.
run_add(roots, path, mindepth, maxdepth, grep) ==
    directories_add(roots, path,
                    ClapDefault(mindepth, 1),
                    ClapDefault(maxdepth, 1),
                    ClapDefault(grep, <<Dot, Star>>))

\* sessionizer directories add <path> [-m mindepth] [-M maxdepth] [-g grep],
\* for one command line
AddRootWith(path, mindepth, maxdepth, grep) ==
    /\ directories' = run_add(directories, path, mindepth, maxdepth, grep)
    /\ evals' = <<>>
    /\ UNCHANGED <<sessions, live, current, last, fzf>>

\* sessionizer directories add <path> [-m mindepth] [-M maxdepth] [-g grep]
AddRoot ==
    \E path \in RootPaths, mindepth \in Depths, maxdepth \in Depths, grep \in Greps :
        AddRootWith(path, mindepth, maxdepth, grep)

\* sessionizer directories remove <path>
RemoveRoot ==
    /\ \E path \in RootPaths : directories' = directories_remove(directories, path)
    /\ evals' = <<>>
    /\ UNCHANGED <<sessions, live, current, last, fzf>>

\* sessionizer directories evaluate
Evaluate ==
    /\ \E hashed \in HashOrders(Collect(directories, <<>>).found) :
          evals' = (IF evals = <<>> THEN <<>> ELSE <<Last(evals)>>)
                       \o <<evaluate(directories, hashed)>>
    /\ UNCHANGED <<sessions, live, current, last, directories, fzf>>

NextDirs == AddRoot \/ RemoveRoot \/ Evaluate

SpecDirs == InitDirs /\ [][NextDirs]_vars

\* The directories commands on a configuration file the user wrote by hand:
\* Config::load accepts any YAML list of roots, and a root written without
\* `grep` is loaded with grep = None.
Documents ==
    {<<>>} \cup {<<[path |-> p, mindepth |-> m, maxdepth |-> M, grep |-> g]>> :
                    p \in RootPaths, m \in 0..MaxDepth, M \in 0..MaxDepth, g \in Greps}

InitDoc ==
    /\ sessions = <<>>
    /\ live = {}
    /\ current = None
    /\ last = Idle
    /\ directories \in Documents
    /\ evals = <<>>
    /\ fzf = NoPicker

SpecDoc == InitDoc /\ [][NextDirs]_vars

------------------------------------------------------------------------------
\* The picker, on its own.

InitPicker ==
    /\ sessions = <<>>
    /\ live = {}
    /\ current = None
    /\ last = Idle
    /\ directories = <<>>
    /\ evals = <<>>
    /\ \E n \in 0..MaxLen, cap \in 1..MaxCap :
          \E want \in 0..n : fzf = Spawned(n, cap, want)

Others == <<sessions, live, current, last, directories, evals>>

\* write_all: one write of as many lines as the pipe has room for, at least
\* one; with a full pipe the task is suspended
ProducerWrite ==
    /\ fzf.producer = "writing" /\ fzf.picker = "running"
    /\ fzf.written < fzf.n /\ fzf.pipe < fzf.cap
    /\ \E k \in 1..(fzf.cap - fzf.pipe) :
          /\ k <= fzf.n - fzf.written
          /\ fzf' = [fzf EXCEPT !.written = @ + k, !.pipe = @ + k]
    /\ UNCHANGED Others

\* write_all on a pipe whose reader has exited fails and expect panics: the
\* task ends, which drops stdin
ProducerPanic ==
    /\ fzf.producer = "writing" /\ fzf.picker = "exited"
    /\ fzf.written < fzf.n
    /\ fzf' = [fzf EXCEPT !.producer = "panicked"]
    /\ UNCHANGED Others

\* everything is written: drop(stdin)
ProducerClose ==
    /\ fzf.producer = "writing"
    /\ fzf.written = fzf.n
    /\ fzf' = drop_stdin(fzf)
    /\ UNCHANGED Others

\* fzf reads what is in the pipe, or part of it
PickerRead ==
    /\ fzf.picker = "running" /\ fzf.pipe > 0
    /\ \E k \in 1..fzf.pipe : fzf' = [fzf EXCEPT !.read = @ + k, !.pipe = @ - k]
    /\ UNCHANGED Others

\* fzf reads from an empty pipe whose write end is closed: end of input
PickerEof ==
    /\ fzf.picker = "running" /\ ~fzf.eof
    /\ fzf.pipe = 0 /\ fzf.producer \in {"closed", "panicked"}
    /\ fzf' = [fzf EXCEPT !.eof = TRUE]
    /\ UNCHANGED Others

\* the user aborts (fzf exits non-zero), or presses Enter on the line they
\* want once fzf has it: fzf prints the line and exits 0; what is left in
\* the pipe is lost with its read end
PickerExit ==
    /\ fzf.picker = "running"
    /\ fzf.want = 0 \/ LineComplete(fzf, fzf.want)
    /\ fzf' = [fzf EXCEPT !.picker = "exited", !.success = (fzf.want # 0),
                          !.out = fzf.want, !.pipe = 0]
    /\ UNCHANGED Others

\* wait_with_output returns once fzf has exited and its stdout is at end of
\* file; the caller then returns Err("fzf error") or Ok(stdout)
ConsumerDone ==
    /\ fzf.consumer = "waiting" /\ fzf.picker = "exited"
    /\ fzf' = [fzf EXCEPT !.consumer = "done",
                          !.result = IF fzf.success THEN "ok" ELSE "err",
                          !.value = IF fzf.success THEN fzf.out ELSE 0]
    /\ UNCHANGED Others

NextPicker ==
    \/ ProducerWrite \/ ProducerPanic \/ ProducerClose
    \/ PickerRead \/ PickerEof \/ PickerExit
    \/ ConsumerDone

\* The tokio runtime runs the writer task and the caller whenever they can
\* make progress, fzf runs as a process of its own, and the user acts.
FairPicker ==
    /\ InitPicker /\ [][NextPicker]_vars
    /\ WF_vars(ProducerWrite) /\ WF_vars(ProducerPanic) /\ WF_vars(ProducerClose)
    /\ WF_vars(PickerRead) /\ WF_vars(PickerEof) /\ WF_vars(PickerExit)
    /\ WF_vars(ConsumerDone)

------------------------------------------------------------------------------
\* Properties

Activating == {"go", "new", "next", "previous", "sync"}

Mutating(op) == last.op = op /\ ~last.flag /\ last.result = "ok" /\ Len(last.pre) >= 2

SyncTo == last.op = "sync" /\ ~last.flag /\ last.result = "ok"

SyncFrom == last.op = "sync" /\ last.flag

Issued(cmd) == \E i \in 1..Len(last.calls) : last.calls[i][1] = cmd

\* C1: whatever commands ran (add, remove, go, new, next, prev, sync either
\* way), starting from the empty registry, the registry on disk holds no
\* identifier twice.
C1_NoDuplicates == NoDup(sessions)

\* a go moved an entry that was not the last one of a 3-entry registry
C1_Witness ==
    /\ last.op = "go" /\ last.result = "ok" /\ last.activated # None
    /\ Len(last.pre) = 3 /\ last.session = last.pre[1]

\* C2: after every successful command that activated a session (go, new,
\* next, prev, sync --reverse) that session is the last entry of the registry
\* on disk.
C2_ActivatedIsLast ==
    (last.op \in Activating /\ last.result = "ok" /\ last.activated # None)
        => (sessions # <<>> /\ Last(sessions) = last.activated)

\* C3: a successful next without --show on a registry of 2 or more entries
\* activates the first (oldest) entry and moves it to the end:
\* ["/a","/b","/c"] activates "/a" and becomes ["/b","/c","/a"].
C3_NextTakesOldest ==
    Mutating("next")
        => /\ last.activated = Head(last.pre)
           /\ sessions = Tail(last.pre) \o <<Head(last.pre)>>

\* C4 as claimed: a successful prev without --show on a registry of 2 or more
\* entries activates the second-to-last entry, which becomes the last, and the
\* former last entry moves to the front: ["/a","/b","/c"] activates "/b" and
\* becomes ["/c","/a","/b"].
C4_PreviousTakesSecondToLast ==
    Mutating("previous")
        => LET n == Len(last.pre)
           IN  /\ last.activated = last.pre[n - 1]
               /\ sessions = <<last.pre[n]>> \o SubSeq(last.pre, 1, n - 2) \o <<last.pre[n - 1]>>

\* C4 as amended: a successful prev without --show on a registry of 2 or more
\* entries takes the first (oldest) entry as target, activates it and moves it
\* to the end, the other entries keeping their order: ["/a","/b","/c"]
\* activates "/a" and becomes ["/b","/c","/a"].
C4_PreviousTakesOldest ==
    Mutating("previous")
        => /\ last.activated = Head(last.pre)
           /\ sessions = Tail(last.pre) \o <<Head(last.pre)>>
           /\ (last.pre = <<PathA, PathB, PathC>> => sessions = <<PathB, PathC, PathA>>)

C4_Witness ==
    /\ Mutating("previous")
    /\ last.pre = <<PathA, PathB, PathC>>
    /\ last.activated = PathA

\* C5: a command saves the config only after every tmux call it makes has
\* returned success, so a command that ends in a hard error leaves the
\* registry on disk as it was.
C5_SavedAfterAllCalls ==
    last.op # "idle"
        => /\ last.savedAt # -1 => (last.savedAt = Len(last.calls) /\ last.result = "ok")
           /\ last.result = "err" => sessions = last.pre

\* C6 as claimed: after a successful sync (not reversed) the set of live tmux
\* sessions is exactly the set of registry identifiers, and the registry is
\* unchanged.
C6_LiveEqualsRegistryIds ==
    SyncTo => (live = Range(sessions) /\ sessions = last.pre)

\* C6 as amended: after a successful sync (not reversed) the set of live tmux
\* sessions is exactly the set of session names of the registry identifiers
\* (each identifier with '.' replaced by the middle dot), nothing was
\* activated, and the registry is unchanged in content and order.
C6_LiveEqualsSessionNames ==
    SyncTo
        => /\ live = {SessionName(s) : s \in Range(sessions)}
           /\ sessions = last.pre
           /\ ~Issued("switch-client") /\ ~Issued("attach")
           /\ last.activated = None

\* a sync that killed a session, created one, and had a dotted path to serve
C6_Witness ==
    /\ SyncTo
    /\ PathDot \in Range(last.pre)
    /\ last.preLive \ live # {}
    /\ live \ last.preLive # {}

\* C7: a successful sync --reverse replaces the registry by the live sessions
\* in the order the tmux server listed them, activates the last of them and
\* saves the registry after that.
C7_SyncFromTakesLiveList ==
    (SyncFrom /\ last.result = "ok")
        => /\ last.order # <<>>
           /\ sessions = last.order
           /\ last.activated = Last(last.order)
           /\ last.savedAt = Len(last.calls)

\* the server listed three sessions, none of them a registry entry before
C7_Witness ==
    /\ SyncFrom /\ last.result = "ok"
    /\ Len(last.order) = 3
    /\ Range(last.order) \cap Range(last.pre) = {}
    /\ last.pre # <<>>

\* C8: sync --reverse with no live session ends in an error, activates nothing
\* and leaves the registry on disk untouched.
C8_SyncFromEmptyFails ==
    (SyncFrom /\ last.preLive = {})
        => /\ last.result = "err"
           /\ last.activated = None
           /\ \A i \in 1..Len(last.calls) : last.calls[i][1] = "ls"
           /\ sessions = last.pre
           /\ last.savedAt = -1

\* tmux ls answered with an empty list while the registry had entries
C8_Witness ==
    /\ SyncFrom /\ last.preLive = {}
    /\ last.msg = "fail to get the last session"
    /\ last.pre # <<>>

\* C9: a remove of the session the tmux client is currently in, once tmux has
\* answered, is refused (a message, not an error) and leaves the registry on
\* disk as it was.
C9_RemoveCurrentRefused ==
    (last.op = "remove" /\ last.result = "ok" /\ last.session = last.preCurrent)
        => sessions = last.pre

\* C10: a remove never changes the tmux server (no session killed, the client
\* stays where it was), and a successful remove of a session that is not the
\* current one drops exactly that identifier, the others keeping their order.
C10_RemoveOnlyUntracks ==
    last.op = "remove"
        => /\ live = last.preLive
           /\ current = last.preCurrent
           /\ ~Issued("kill-session")
           /\ (last.result = "ok" /\ last.session # last.preCurrent)
                => sessions = SelectSeq(last.pre, LAMBDA s : s # last.session)

\* the entry removed sat in the middle of the registry and its session is live
C10_Witness ==
    /\ last.op = "remove" /\ last.result = "ok"
    /\ Len(last.pre) = 3 /\ last.session = last.pre[2]
    /\ SessionName(last.session) \in live
    /\ last.session # last.preCurrent
    /\ Len(sessions) = 2

\* The number of tmux processes of kind `cmd` the command spawned.
Count(cmd) == Cardinality({i \in 1..Len(last.calls) : last.calls[i][1] = cmd})

\* The tmux state a command finds when it runs right after the last one and
\* no tmux call of it fails.
RECURSIVE NextTimes(_, _, _)
NextTimes(k, registry, tm) ==
    IF k = 0 THEN [sessions |-> registry, tm |-> tm, ok |-> TRUE]
    ELSE LET o == next(registry, [tm EXCEPT !.calls = <<>>], FALSE)
         IN  IF o.result # "ok" THEN [sessions |-> o.sessions, tm |-> o.tm, ok |-> FALSE]
             ELSE NextTimes(k - 1, o.sessions, o.tm)

\* C11: a go with a session argument that is not in the registry says 'not
\* found', makes no tmux call, leaves the registry as it was and returns Ok,
\* whether or not the path exists.
C11_GoUnknownIsSoft ==
    (last.op = "go" /\ last.session # None /\ last.session \notin Range(last.pre))
        => /\ last.result = "ok"
           /\ last.msg = "Session not found in the history."
           /\ last.calls = <<>>
           /\ sessions = last.pre

\* C12: a go or new whose session path does not exist prints a message, makes
\* no tmux call, leaves the registry as it was and returns Ok.
C12_MissingPathIsSoft ==
    (last.op \in {"go", "new"} /\ last.session # None /\ ~last.exists)
        => /\ last.result = "ok"
           /\ last.calls = <<>>
           /\ sessions = last.pre

\* C13: an add of a session already in the registry makes no tmux call,
\* leaves the registry as it was and returns Ok.
C13_AddExistingIsSoft ==
    (last.op = "add" /\ last.session \in Range(last.pre))
        => /\ last.result = "ok"
           /\ last.calls = <<>>
           /\ sessions = last.pre
           /\ live = last.preLive /\ current = last.preCurrent
           /\ last.savedAt = -1

\* add --set of a registered session that has no live tmux session
C13_Witness ==
    /\ last.op = "add" /\ last.flag
    /\ last.session \in Range(last.pre)
    /\ SessionName(last.session) \notin last.preLive
    /\ last.msg = "Session already exists in the history."

\* C14: an add --set of a session not in the registry spawns new-session
\* exactly once, as its first tmux call: the set that follows finds the
\* session and does not create it again; once new-session succeeded the
\* session is the last entry of the registry.
C14_AddSetCreatesOnce ==
    (last.op = "add" /\ last.flag /\ last.session \notin Range(last.pre))
        => /\ Count("new-session") = 1
           /\ last.calls[1] = <<"new-session", SessionName(last.session)>>
           /\ Len(last.calls) >= 2 => sessions = Append(last.pre, last.session)
           /\ last.result = "ok" => last.activated = last.session

\* add --set of the dotted path succeeded on a non-empty registry
C14_Witness ==
    /\ last.op = "add" /\ last.flag /\ last.result = "ok"
    /\ last.session = PathDot
    /\ last.pre # <<>>
    /\ Issued("has-session")

\* C15: next and prev, with or without --show, on a registry of 0 or 1 entry
\* change nothing, spawn no tmux process and return Ok.
C15_RotateShortIsNoOp ==
    (last.op \in {"next", "previous"} /\ Len(last.pre) <= 1)
        => /\ last.result = "ok"
           /\ last.calls = <<>>
           /\ last.activated = None
           /\ sessions = last.pre
           /\ last.savedAt = -1
           /\ live = last.preLive /\ current = last.preCurrent

\* next without --show on a registry of one entry whose session is not live
C15_Witness ==
    /\ last.op = "next" /\ ~last.flag
    /\ Len(last.pre) = 1
    /\ SessionName(last.pre[1]) \notin last.preLive
    /\ last.msg = "Only one session in the history."

\* C16: next --show and prev --show never change the registry on disk and
\* spawn no tmux process, so the same command run again right away reports the
\* same candidate.
C16_ShowIsPure ==
    (last.op \in {"next", "previous"} /\ last.flag)
        => /\ sessions = last.pre
           /\ last.calls = <<>>
           /\ last.savedAt = -1
           /\ live = last.preLive /\ current = last.preCurrent
           /\ last.op = "next"
                => next(sessions, Tmux(0), TRUE).session = last.session
           /\ last.op = "previous"
                => previous(sessions, Tmux(0), TRUE).session = last.session

\* next --show reported a candidate of a registry of three
C16_Witness ==
    /\ last.op = "next" /\ last.flag
    /\ Len(last.pre) = 3
    /\ last.session # None
    /\ last.msg = "Next session: "

\* C17: on a registry of N >= 2 entries, N successful nexts (without --show)
\* in a row bring the registry back to its original order, and 1..N-1 of them
\* leave it in a different order.  Checked right after the first of them.
C17_NextCycles ==
    Mutating("next")
        => \A k \in 1..Len(last.pre) :
            LET o == NextTimes(k - 1, sessions, Tmux(0))
            IN  /\ o.ok
                /\ (o.sessions = last.pre) <=> (k = Len(last.pre))

\* the first of three nexts on a registry of three has run
C17_Witness ==
    /\ Mutating("next")
    /\ Len(last.pre) = 3
    /\ sessions # last.pre
    /\ NextTimes(1, sessions, Tmux(0)).sessions # last.pre
    /\ NextTimes(2, sessions, Tmux(0)).sessions = last.pre

\* C18: set spawns has-session first, new-session if and only if has-session
\* said no, then exactly one of switch-client and attach: switch-client when
\* tmux info succeeded (a client is attached), attach when it did not, which is
\* no error.
C18_SetCallOrder ==
    /\ Issued("switch-client") => last.preCurrent # None
    /\ Issued("attach") => last.preCurrent = None
    /\ (last.op \in {"go", "new", "next", "previous"} /\ last.calls # <<>>)
        => LET name == SessionName(last.session)
           IN  /\ last.calls[1] = <<"has-session", name>>
               /\ Issued("new-session") => name \notin last.preLive
               /\ Len(last.calls) >= 2
                    => (Issued("new-session") <=> name \notin last.preLive)
               /\ last.result = "ok"
                    => /\ Count("switch-client") + Count("attach") = 1
                       /\ Count("info") = 1
                       /\ Last(last.calls)[1] \in {"switch-client", "attach"}
                       /\ current = name /\ name \in live

\* a go created the session and attached to it, no client being attached
C18_Witness ==
    /\ last.op = "go" /\ last.result = "ok"
    /\ last.preCurrent = None
    /\ Issued("new-session") /\ Issued("attach")

\* C19: what evaluate returns is in strictly ascending order, so it holds no
\* path twice, also when the roots overlap; a second evaluate on the same
\* roots and filesystem returns the same sequence.
C19_EvaluateSortedAndStable ==
    /\ \A n \in 1..Len(evals) :
          evals[n].result = "ok"
              => /\ \A i, j \in 1..Len(evals[n].dirs) :
                       i < j => Less(evals[n].dirs[i], evals[n].dirs[j])
                 /\ NoDup(evals[n].dirs)
    /\ Len(evals) = 2 => evals[1] = evals[2]

\* two evaluates ran on two overlapping roots that both walk into /p/z/w
C19_Witness ==
    /\ Len(evals) = 2
    /\ evals[2].result = "ok"
    /\ Len(directories) = 2
    /\ ~NoDup(Collect(directories, <<>>).found)
    /\ Len(evals[2].dirs) >= 3

\* C20: what evaluate returns is exactly the directories that the walk of some
\* root reaches at a depth within [mindepth, maxdepth] of that root and whose
\* full path matches the root's pattern; files, entries outside the depth
\* range and what cannot be read are not returned.
C20_EvaluateIsDepthRangeAndPattern ==
    (evals # <<>> /\ Last(evals).result = "ok")
        => Range(Last(evals).dirs) =
              {e.path : e \in
                  {f \in Range(Fs) :
                      /\ f.kind # "file"
                      /\ \E n \in 1..Len(directories) :
                            LET r == directories[n]
                            IN  /\ Reached(r.path, f.path)
                                /\ Depth(r.path, f.path) \in r.mindepth..r.maxdepth
                                /\ is_match(r.grep[1], f.path)}}

\* C21: evaluate on roots of which some have no pattern returns Ok, treating
\* the missing pattern as one that matches everything; it fails only when a
\* pattern that is present does not compile, and then with the error of
\* Regex::new.
C21_AbsentPatternMatchesAll ==
    evals # <<>>
        => /\ (Last(evals).result = "ok")
                <=> \A n \in 1..Len(directories) :
                       directories[n].grep # None => Compiles(directories[n].grep[1])
           /\ Last(evals).result \in {"ok", "err"}

\* C22: every step leaves at most one root per path; a `directories add` keeps
\* each option the user passed; an option the user did not pass is taken from
\* the root already stored for the path, or, for -m and -M on a new path, is
\* 1; the root written is the last one and the other roots keep their order.
\* Stated for every command line that makes the step.
C22_AddIsUpsert ==
    [][/\ \A i, j \in 1..Len(directories') :
             directories'[i].path = directories'[j].path => i = j
       /\ \A path \in RootPaths, mindepth \in Depths, maxdepth \in Depths, grep \in Greps :
             AddRootWith(path, mindepth, maxdepth, grep)
                 => LET existing == SelectSeq(directories, LAMBDA d : d.path = path)
                        written == Last(directories')
                    IN  /\ written.path = path
                        /\ mindepth # None => written.mindepth = mindepth[1]
                        /\ maxdepth # None => written.maxdepth = maxdepth[1]
                        /\ grep # None => written.grep = grep
                        /\ (existing # <<>> /\ mindepth = None) => written.mindepth = existing[1].mindepth
                        /\ (existing # <<>> /\ maxdepth = None) => written.maxdepth = existing[1].maxdepth
                        /\ (existing # <<>> /\ grep = None) => written.grep = existing[1].grep
                        /\ (existing = <<>> /\ mindepth = None) => written.mindepth = 1
                        /\ (existing = <<>> /\ maxdepth = None) => written.maxdepth = 1
                        /\ SubSeq(directories', 1, Len(directories') - 1)
                              = SelectSeq(directories, LAMBDA d : d.path # path)
      ]_vars

\* C23: every root stored by any sequence of `directories add` and `directories
\* remove` has maxdepth >= mindepth.
C23_MaxdepthAtLeastMindepth ==
    \A n \in 1..Len(directories) : directories[n].maxdepth >= directories[n].mindepth

\* C25: a successful next followed by a successful prev, and a successful prev
\* followed by a successful next, leave a registry of at least 2 entries as it
\* was, content and order; each of the two commands only permutes the entries.
\* Checked right after the first command, the second being the handler run on
\* the state the first one left.
C25_NextAndPreviousAreInverse ==
    /\ Mutating("next")
          => /\ Len(sessions) = Len(last.pre) /\ Range(sessions) = Range(last.pre)
             /\ NoDup(sessions)
             /\ previous(sessions, Tmux(0), FALSE).result = "ok"
             /\ previous(sessions, Tmux(0), FALSE).sessions = last.pre
    /\ Mutating("previous")
          => /\ Len(sessions) = Len(last.pre) /\ Range(sessions) = Range(last.pre)
             /\ NoDup(sessions)
             /\ next(sessions, Tmux(0), FALSE).result = "ok"
             /\ next(sessions, Tmux(0), FALSE).sessions = last.pre

\* a next on a registry of three changed its order, and the prev that follows
\* restores it
C25_Witness ==
    /\ Mutating("next")
    /\ Len(last.pre) = 3
    /\ sessions # last.pre
    /\ previous(sessions, Tmux(0), FALSE).sessions = last.pre
    /\ previous(sessions, Tmux(0), FALSE).activated = last.pre[3]

\* C26: a sync (not reversed) kills no tmux session that bears the session
\* name of a registry entry, dotted paths included, and a second sync right
\* after a successful one spawns neither kill-session nor new-session,
\* whatever order tmux lists its sessions in.
C26_SyncKeepsRegisteredSessions ==
    (last.op = "sync" /\ ~last.flag)
        => /\ \A s \in Range(last.pre) :
                  <<"kill-session", SessionName(s)>> \notin Range(last.calls)
           /\ last.result = "ok"
                => \A order \in Perms(live) :
                      \A c \in Range(sync(sessions, Tmux(0), FALSE, order).tm.calls) :
                          c[1] \notin {"kill-session", "new-session"}

\* C24: for every number of candidates and every pipe capacity, the caller of
\* the picker eventually gets its answer, and it is the line the user chose
\* or the error of a picker that exited non-zero.
C24_PickerCompletes ==
    <>(/\ fzf.consumer = "done"
       /\ \/ fzf.result = "ok" /\ fzf.value = fzf.want /\ fzf.want # 0
          \/ fzf.result = "err" /\ fzf.want = 0)

\* the user chose the last of more lines than the pipe holds, so the writer
\* had to wait for fzf to read, and fzf for the end of input
C24_Witness ==
    /\ fzf.consumer = "done" /\ fzf.result = "ok"
    /\ fzf.n = MaxLen /\ fzf.cap < fzf.n
    /\ fzf.value = fzf.n
    /\ fzf.producer = "closed" /\ fzf.eof

====
